---- MODULE Spec2Model ----
(***************************************************************************)
(* A model of the depth-estimation network of train_resnet.py: the Unpool  *)
(* primitive, the five decoders, choose_decoder, and the ResNet wrapper     *)
(* with its construction, forward pass and parameter-group views.           *)
(*                                                                          *)
(* Tensors are modelled by their shape (batch, channels, height, width)    *)
(* wherever the code's behaviour depends on the shape alone; Unpool is      *)
(* also modelled on values.  A module is a record: its kind, its            *)
(* hyper-parameters, its registered children in registration order, who    *)
(* last wrote its weights (w), and the functions Module.apply has called    *)
(* on it (applied); origin tells a module this code constructs ("new")    *)
(* from one taken over from the pretrained network ("provider").  Device   *)
(* placement is not modelled: the input is taken to live on the device the    *)
(* module computes on.                                                      *)
(***************************************************************************)
EXTENDS Integers, Sequences, FiniteSets, TLC

VARIABLES
    req,        \* the last call made on the decoder: its name and arguments
    dec,        \* the decoder the last construction returned, or its error
    training,   \* nn.Module.training of the module under test
    fwd,        \* if the last call was forward: its input, then x after each stage
    um,         \* the Unpool module under test
    ux,         \* the last input tensor given to Unpool.forward (values)
    uy,         \* what Unpool.forward returned for it
    nreq,       \* the last call made on the network: its name and arguments
    net,        \* the network ResNet(...) returned, or its error
    nlog,       \* what the constructor did, in program order
    ntraining,  \* nn.Module.training of the network
    frozen,     \* the parameters whose requires_grad is False
    v1x,        \* what get_1x_lr_params last yielded, in order
    v10x,       \* what get_10x_lr_params last yielded, in order
    nfwd,       \* if the last call was forward: its input, then x after each line
    pc,         \* the statement the training script is at
    globals,    \* the names bound in the script's module scope
    locals,     \* the names bound in the frame of train(), while there is one
    epoch,      \* the loop variable i of the epoch loop
    iter_,      \* the loop variable iter_ of train()
    decays,     \* how many times train() has multiplied the learning rates by 0.99
    saved,      \* the checkpoints torch.save has written, in order
    raised,     \* the exception that ended the script, if one did
    runs,       \* the ids of the run_* directories under the output root
    oreq,       \* the last call of get_output_directory: resume or not
    oret        \* the id of the run directory it returned

unpoolVars == <<um, ux, uy>>

netVars == <<nreq, net, nlog, ntraining, frozen, v1x, v10x, nfwd>>

scriptVars == <<pc, globals, locals, epoch, iter_, decays, saved, raised>>

dirVars == <<runs, oreq, oret>>

hostVars == <<scriptVars, dirVars>>

vars == <<req, dec, training, fwd, um, ux, uy,
          nreq, net, nlog, ntraining, frozen, v1x, v10x, nfwd,
          pc, globals, locals, epoch, iter_, decays, saved, raised,
          runs, oreq, oret>>

----------------------------------------------------------------------------
\* Bounds of the model.

\* in_channels range over 8 * (2 .. MaxChanMult): 16, 24, 32, 40, 48
MaxChanMult == 6
\* batch sizes 1 .. MaxBatch
MaxBatch == 2
\* spatial sizes 1 .. MaxHW of a decoder input
MaxHW == 2
\* kernel sizes given to DeConv directly: MinKernel .. MaxKernel
MaxKernel == 10

MinKernel == 0 - 1
\* Unpool on values: batch sizes 1 .. MaxUB, channels 1 .. MaxUC, spatial
\* sizes 1 .. MaxUHW, strides 1 .. MaxStride
MaxUB == 1
MaxUC == 2
MaxUHW == 2
MaxStride == 2
\* top-level modules of the network whose parameters are frozen at a time
MaxFrozen == 1

InChannels == {8 * i : i \in 2..MaxChanMult}

----------------------------------------------------------------------------
\* Values: shapes, errors, strings.

Shape(b, c, h, w) == [kind |-> "shape", b |-> b, c |-> c, h |-> h, w |-> w]

\* A raised exception: its class, the literal text of its message and the
\* value formatted into the message (as str() renders it; <<>> when none).
Error(exc, text, arg) == [kind |-> "error", exc |-> exc, text |-> text, arg |-> arg]

IsErr(v) == v.kind = "error"

None == [kind |-> "none"]

Digits == <<"0", "1", "2", "3", "4", "5", "6", "7", "8", "9">>

RECURSIVE StrNat(_)
StrNat(n) == IF n < 10 THEN <<Digits[n + 1]>>
             ELSE StrNat(n \div 10) \o <<Digits[(n % 10) + 1]>>

\* str(n) of an integer, a string being a sequence of characters
Str(n) == IF n < 0 THEN <<"-">> \o StrNat(0 - n) ELSE StrNat(n)

\* int(ch) of a one-character string: its value, or -1 where int() raises
IntOfChar(ch) == IF \E d \in 1..10 : Digits[d] = ch
                 THEN (CHOOSE d \in 1..10 : Digits[d] = ch) - 1
                 ELSE 0 - 1

\* s[:n]
Prefix(s, n) == SubSeq(s, 1, IF Len(s) < n THEN Len(s) ELSE n)

----------------------------------------------------------------------------
\* The layers of torch.nn the code builds, and what each does to a shape.

\* The weights of a layer as its constructor leaves them: who wrote the weight
\* (n is the fan the writer used, 0 when none) and who wrote the bias.
Fresh(hasBias) == [weight |-> "default", n |-> 0,
                   bias |-> IF hasBias THEN "default" ELSE "none"]

Conv2d(cin, cout, kh, kw, stride, ph, pw, bias) ==
    [kind |-> "Conv2d", cin |-> cin, cout |-> cout, kh |-> kh, kw |-> kw,
     stride |-> stride, ph |-> ph, pw |-> pw, opad |-> 0, bias |-> bias,
     children |-> <<>>, w |-> Fresh(bias), origin |-> "new", applied |-> <<>>]

ConvTranspose2d(cin, cout, k, stride, padding, output_padding) ==
    [kind |-> "ConvTranspose2d", cin |-> cin, cout |-> cout, kh |-> k, kw |-> k,
     stride |-> stride, ph |-> padding, pw |-> padding, opad |-> output_padding,
     bias |-> FALSE, children |-> <<>>, w |-> Fresh(FALSE), origin |-> "new", applied |-> <<>>]

BatchNorm2d(c) ==
    [kind |-> "BatchNorm2d", cin |-> c, cout |-> c, bias |-> TRUE,
     children |-> <<>>, w |-> Fresh(TRUE), origin |-> "new", applied |-> <<>>]

ReLU == [kind |-> "ReLU", children |-> <<>>, origin |-> "new", applied |-> <<>>]

PixelShuffle(r) == [kind |-> "PixelShuffle", stride |-> r, children |-> <<>>,
                    origin |-> "new", applied |-> <<>>]

Unpool(num_channels, stride) ==
    [kind |-> "Unpool", cin |-> num_channels, stride |-> stride,
     children |-> <<>>, origin |-> "new", applied |-> <<>>]

MaxPool2d(k, stride, padding) ==
    [kind |-> "MaxPool2d", kh |-> k, kw |-> k, stride |-> stride, ph |-> padding,
     pw |-> padding, children |-> <<>>, origin |-> "new", applied |-> <<>>]

\* nn.Upsample(size=size, mode='bilinear', align_corners=True)
Upsample(size) ==
    [kind |-> "Upsample", size |-> size, children |-> <<>>, origin |-> "new",
     applied |-> <<>>]

\* nn.Sequential(OrderedDict(items)) and the code's own container classes
Container(kind, items) == [kind |-> kind, children |-> items, origin |-> "new",
                          applied |-> <<>>]

Item(name, m) == [name |-> name, m |-> m]

Child(m, name) ==
    (CHOOSE i \in 1..Len(m.children) : m.children[i].name = name)

Sub(m, name) == m.children[Child(m, name)].m

HasChild(m, name) == \E i \in 1..Len(m.children) : m.children[i].name = name

Conv2dForward(l, x) ==
    IF x.c # l.cin
    THEN Error("RuntimeError", "expected input to have channels", Str(l.cin))
    ELSE IF x.h + 2 * l.ph < l.kh \/ x.w + 2 * l.pw < l.kw
    THEN Error("RuntimeError", "Kernel size can't be greater than actual input size", <<>>)
    ELSE Shape(x.b, l.cout, ((x.h + 2 * l.ph - l.kh) \div l.stride) + 1,
                            ((x.w + 2 * l.pw - l.kw) \div l.stride) + 1)

ConvTranspose2dForward(l, x) ==
    IF x.c # l.cin
    THEN Error("RuntimeError", "expected input to have channels", Str(l.cin))
    ELSE Shape(x.b, l.cout,
               (x.h - 1) * l.stride - 2 * l.ph + (l.kh - 1) + l.opad + 1,
               (x.w - 1) * l.stride - 2 * l.pw + (l.kw - 1) + l.opad + 1)

\* In training mode batch normalisation needs more than one value per channel.
BatchNorm2dForward(l, x, train) ==
    IF x.c # l.cin
    THEN Error("RuntimeError", "running_mean should contain elements", Str(x.c))
    ELSE IF train /\ x.b * x.h * x.w = 1
    THEN Error("ValueError", "Expected more than 1 value per channel when training", <<>>)
    ELSE x

PixelShuffleForward(l, x) ==
    IF x.c % (l.stride * l.stride) # 0
    THEN Error("RuntimeError", "pixel_shuffle expects channels divisible by", Str(l.stride * l.stride))
    ELSE Shape(x.b, x.c \div (l.stride * l.stride), x.h * l.stride, x.w * l.stride)

\* F.conv_transpose2d(x, weights[C,1,s,s], stride=s, groups=C) on shapes
UnpoolShape(l, x) ==
    IF x.c # l.cin
    THEN Error("RuntimeError", "expected input to have channels", Str(l.cin))
    ELSE Shape(x.b, l.cin, (x.h - 1) * l.stride + (l.stride - 1) + 1,
                           (x.w - 1) * l.stride + (l.stride - 1) + 1)

MaxPool2dForward(l, x) ==
    Shape(x.b, x.c, ((x.h + 2 * l.ph - l.kh) \div l.stride) + 1,
                    ((x.w + 2 * l.pw - l.kw) \div l.stride) + 1)

UpsampleForward(l, x) == Shape(x.b, x.c, l.size[1], l.size[2])

\* A stage of the pretrained network: its blocks take cin channels to cout and
\* divide height and width by the stage's stride, rounding up; the stage's
\* normalisations run at the output's size.
ResNetStageForward(l, x, train) ==
    IF x.c # l.cin
    THEN Error("RuntimeError", "expected input to have channels", Str(l.cin))
    ELSE LET y == Shape(x.b, l.cout, ((x.h - 1) \div l.stride) + 1,
                                     ((x.w - 1) \div l.stride) + 1)
         IN  IF train /\ y.b * y.h * y.w = 1
             THEN Error("ValueError", "Expected more than 1 value per channel when training", <<>>)
             ELSE y

\* nn.functional.pad(x, (left, right, top, bottom))
F_pad(x, left, right, top, bottom) ==
    Shape(x.b, x.c, x.h + top + bottom, x.w + left + right)

\* torch.cat((x1, x2, x3, x4), dim=1)
Cat4(x1, x2, x3, x4) ==
    IF IsErr(x1) THEN x1 ELSE IF IsErr(x2) THEN x2
    ELSE IF IsErr(x3) THEN x3 ELSE IF IsErr(x4) THEN x4
    ELSE IF \E y \in {x2, x3, x4} : y.b # x1.b \/ y.h # x1.h \/ y.w # x1.w
    THEN Error("RuntimeError", "Sizes of tensors must match except in dimension 1", <<>>)
    ELSE Shape(x1.b, x1.c + x2.c + x3.c + x4.c, x1.h, x1.w)

BroadcastDim(a, b) == IF a = b THEN a ELSE IF a = 1 THEN b ELSE IF b = 1 THEN a ELSE 0

\* x1 + x2
Add(x1, x2) ==
    IF IsErr(x1) THEN x1 ELSE IF IsErr(x2) THEN x2
    ELSE IF 0 \in {BroadcastDim(x1.b, x2.b), BroadcastDim(x1.c, x2.c),
                   BroadcastDim(x1.h, x2.h), BroadcastDim(x1.w, x2.w)}
    THEN Error("RuntimeError", "The size of tensor a must match the size of tensor b", <<>>)
    ELSE Shape(BroadcastDim(x1.b, x2.b), BroadcastDim(x1.c, x2.c),
               BroadcastDim(x1.h, x2.h), BroadcastDim(x1.w, x2.w))

----------------------------------------------------------------------------
\* The decoders: constructors.

\* DeConv.convt with the padding rounded up: kernel_size // 2
convt_padding_half(kernel_size) == kernel_size \div 2

\* DeConv.convt: the derived padding and output padding of a stage
convt_padding(kernel_size) == (kernel_size - 1) \div 2

convt_output_padding(kernel_size) == kernel_size % 2

\* the name "deconv{}".format(kernel_size) of a stage's transposed convolution,
\* tabulated for the kernel sizes that pass the constructor's assertion
convt_module_name(kernel_size) ==
    IF kernel_size \in 2..12
    THEN <<"deconv2", "deconv3", "deconv4", "deconv5", "deconv6", "deconv7",
           "deconv8", "deconv9", "deconv10", "deconv11", "deconv12">>[kernel_size - 1]
    ELSE "deconv"

convt(in_channels, kernel_size) ==
    LET stride == 2
        padding == convt_padding(kernel_size)
        output_padding == convt_output_padding(kernel_size)
    IN  IF 0 - 2 - 2 * padding + kernel_size + output_padding # 0
        THEN Error("AssertionError", "deconv parameters incorrect", <<>>)
        ELSE Container("Sequential", <<
               Item(convt_module_name(kernel_size), ConvTranspose2d(in_channels, in_channels \div 2,
                                kernel_size, stride, padding, output_padding)),
               Item("batchnorm", BatchNorm2d(in_channels \div 2)),
               Item("relu", ReLU)>>)

\* A decoder object: its class, its constructor arguments and layer1..layer4.
\* A stage whose construction raised makes the whole construction raise.
Decoder(class, in_channels, kernel_size, l1, l2, l3, l4) ==
    IF IsErr(l1) THEN l1 ELSE IF IsErr(l2) THEN l2
    ELSE IF IsErr(l3) THEN l3 ELSE IF IsErr(l4) THEN l4
    ELSE [kind |-> class, in_channels |-> in_channels, kernel_size |-> kernel_size,
          children |-> <<Item("layer1", l1), Item("layer2", l2),
                         Item("layer3", l3), Item("layer4", l4)>>,
          origin |-> "new", applied |-> <<>>]

DeConv(in_channels, kernel_size) ==
    IF ~(kernel_size >= 2)
    THEN Error("AssertionError", "kernel_size out of range: ", Str(kernel_size))
    ELSE Decoder("DeConv", in_channels, kernel_size,
                 convt(in_channels, kernel_size),
                 convt(in_channels \div 2, kernel_size),
                 convt(in_channels \div 4, kernel_size),
                 convt(in_channels \div 8, kernel_size))

upconv_module(in_channels) ==
    Container("Sequential", <<
        Item("unpool", Unpool(in_channels, 2)),
        Item("conv", Conv2d(in_channels, in_channels \div 2, 5, 5, 1, 2, 2, FALSE)),
        Item("batchnorm", BatchNorm2d(in_channels \div 2)),
        Item("relu", ReLU)>>)

UpConv(in_channels) ==
    Decoder("UpConv", in_channels, 0,
            upconv_module(in_channels), upconv_module(in_channels \div 2),
            upconv_module(in_channels \div 4), upconv_module(in_channels \div 8))

\* conv{i}_ of the pixel-shuffle modules: a kh x kw convolution and its norm
ConvBn(in_channel, kh, kw) ==
    Container("Sequential", <<
        Item("conv1", Conv2d(in_channel, in_channel \div 2, kh, kw, 1, 0, 0, TRUE)),
        Item("bn1", BatchNorm2d(in_channel \div 2))>>)

faster_upconv_module(in_channel) ==
    Container("faster_upconv_module", <<
        Item("conv1_", ConvBn(in_channel, 3, 3)),
        Item("conv2_", ConvBn(in_channel, 2, 3)),
        Item("conv3_", ConvBn(in_channel, 3, 2)),
        Item("conv4_", ConvBn(in_channel, 2, 2)),
        Item("ps", PixelShuffle(2)),
        Item("relu", ReLU)>>)

FasterUpConv(in_channel) ==
    Decoder("FasterUpConv", in_channel, 0,
            faster_upconv_module(in_channel), faster_upconv_module(in_channel \div 2),
            faster_upconv_module(in_channel \div 4), faster_upconv_module(in_channel \div 8))

UpProjModule(in_channels) ==
    LET out_channels == in_channels \div 2
    IN  Container("UpProjModule", <<
          Item("unpool", Unpool(in_channels, 2)),
          Item("upper_branch", Container("Sequential", <<
              Item("conv1", Conv2d(in_channels, out_channels, 5, 5, 1, 2, 2, FALSE)),
              Item("batchnorm1", BatchNorm2d(out_channels)),
              Item("relu", ReLU),
              Item("conv2", Conv2d(out_channels, out_channels, 3, 3, 1, 1, 1, FALSE)),
              Item("batchnorm2", BatchNorm2d(out_channels))>>)),
          Item("bottom_branch", Container("Sequential", <<
              Item("conv", Conv2d(in_channels, out_channels, 5, 5, 1, 2, 2, FALSE)),
              Item("batchnorm", BatchNorm2d(out_channels))>>)),
          Item("relu", ReLU)>>)

UpProj(in_channels) ==
    Decoder("UpProj", in_channels, 0,
            UpProjModule(in_channels), UpProjModule(in_channels \div 2),
            UpProjModule(in_channels \div 4), UpProjModule(in_channels \div 8))

faster_upconv(in_channel) ==
    Container("faster_upconv", <<
        Item("conv1_", ConvBn(in_channel, 3, 3)),
        Item("conv2_", ConvBn(in_channel, 2, 3)),
        Item("conv3_", ConvBn(in_channel, 3, 2)),
        Item("conv4_", ConvBn(in_channel, 2, 2)),
        Item("ps", PixelShuffle(2)),
        Item("relu", ReLU)>>)

FasterUpProjModule(in_channels) ==
    LET out_channels == in_channels \div 2
    IN  Container("FasterUpProjModule", <<
          Item("upper_branch", Container("Sequential", <<
              Item("faster_upconv", faster_upconv(in_channels)),
              Item("relu", ReLU),
              Item("conv", Conv2d(out_channels, out_channels, 3, 3, 1, 1, 1, FALSE)),
              Item("batchnorm", BatchNorm2d(out_channels))>>)),
          Item("bottom_branch", faster_upconv(in_channels)),
          Item("relu", ReLU)>>)

FasterUpProj(in_channel) ==
    Decoder("FasterUpProj", in_channel, 0,
            FasterUpProjModule(in_channel), FasterUpProjModule(in_channel \div 2),
            FasterUpProjModule(in_channel \div 4), FasterUpProjModule(in_channel \div 8))

----------------------------------------------------------------------------
\* The decoders: forward.

RECURSIVE Forward(_, _, _)
RECURSIVE SeqForward(_, _, _, _)
RECURSIVE Lines(_, _, _, _, _)

\* The statements x = self.<names[i]>(x), x = self.<names[i+1]>(x), ... run in
\* order on module m: trace holds the input and the value of x after each
\* statement run so far.
Lines(m, names, i, trace, train) ==
    IF i > Len(names) THEN trace
    ELSE Lines(m, names, i + 1,
               Append(trace, Forward(Sub(m, names[i]), trace[Len(trace)], train)),
               train)

\* nn.Sequential.forward from child i on
SeqForward(m, i, x, train) ==
    IF i > Len(m.children) \/ IsErr(x) THEN x
    ELSE SeqForward(m, i + 1, Forward(m.children[i].m, x, train), train)

\* the four padded convolutions, the concatenation and the pixel shuffle that
\* faster_upconv_module.forward and faster_upconv.forward share
FourWayShuffle(m, x, train) ==
    Forward(Sub(m, "ps"),
            Cat4(Forward(Sub(m, "conv1_"), F_pad(x, 1, 1, 1, 1), train),
                 Forward(Sub(m, "conv2_"), F_pad(x, 1, 1, 0, 1), train),
                 Forward(Sub(m, "conv3_"), F_pad(x, 0, 1, 1, 1), train),
                 Forward(Sub(m, "conv4_"), F_pad(x, 0, 1, 0, 1), train)),
            train)

\* x1 = self.upper_branch(x); x2 = self.bottom_branch(x); relu(x1 + x2)
TwoBranches(m, x, train) ==
    Forward(Sub(m, "relu"),
            Add(Forward(Sub(m, "upper_branch"), x, train),
                Forward(Sub(m, "bottom_branch"), x, train)),
            train)

UpProjModuleForward(m, x, train) ==
    TwoBranches(m, Forward(Sub(m, "unpool"), x, train), train)

FasterUpProjModuleForward(m, x, train) == TwoBranches(m, x, train)

Forward(m, x, train) ==
    IF IsErr(x) THEN x
    ELSE CASE m.kind = "Conv2d" -> Conv2dForward(m, x)
           [] m.kind = "ConvTranspose2d" -> ConvTranspose2dForward(m, x)
           [] m.kind = "BatchNorm2d" -> BatchNorm2dForward(m, x, train)
           [] m.kind = "ReLU" -> x
           [] m.kind = "PixelShuffle" -> PixelShuffleForward(m, x)
           [] m.kind = "Unpool" -> UnpoolShape(m, x)
           [] m.kind = "MaxPool2d" -> MaxPool2dForward(m, x)
           [] m.kind = "Upsample" -> UpsampleForward(m, x)
           [] m.kind = "ResNetStage" -> ResNetStageForward(m, x, train)
           [] m.kind = "Sequential" -> SeqForward(m, 1, x, train)
           [] m.kind = "faster_upconv_module" ->
                  Forward(Sub(m, "relu"), FourWayShuffle(m, x, train), train)
           [] m.kind = "faster_upconv" -> FourWayShuffle(m, x, train)
           [] m.kind = "UpProjModule" -> UpProjModuleForward(m, x, train)
           [] m.kind = "FasterUpProjModule" -> FasterUpProjModuleForward(m, x, train)
           [] m.kind \in {"DeConv", "UpConv", "FasterUpConv", "UpProj", "FasterUpProj"} ->
                  Lines(m, <<"layer1", "layer2", "layer3", "layer4">>, 1, <<x>>, train)[5]

\* Decoder.forward with layer2 applied before layer1
Decoder_forward_swapped(d, x, train) ==
    Lines(d, <<"layer2", "layer1", "layer3", "layer4">>, 1, <<x>>, train)

\* Decoder.forward: the input and the value of x after each of its four lines
Decoder_forward(d, x, train) ==
    Lines(d, <<"layer1", "layer2", "layer3", "layer4">>, 1, <<x>>, train)

\* the decoder classes, and the ones whose stages normalise before upsampling
DecoderClasses == {"DeConv", "UpConv", "FasterUpConv", "UpProj", "FasterUpProj"}

IsDecoder(d) == d.kind \in DecoderClasses

----------------------------------------------------------------------------
\* Unpool.forward on values.  A tensor is its four sizes and a function from
\* the index tuples <<b, c, i, j>>, counted from 0, to its entries.

Tensor(b, c, h, w, v) == [kind |-> "tensor", b |-> b, c |-> c, h |-> h, w |-> w, v |-> v]

Indices(b, c, h, w) == (0..(b - 1)) \X (0..(c - 1)) \X (0..(h - 1)) \X (0..(w - 1))

\* the weights with the 1 of each kernel in its last entry, not its first
Unpool_weights_last(num_channels, stride) ==
    Tensor(num_channels, 1, stride, stride,
           [t \in Indices(num_channels, 1, stride, stride) |->
                IF t[3] = stride - 1 /\ t[4] = stride - 1 THEN 1 ELSE 0])

\* weights = torch.zeros(C, 1, s, s); weights[:, :, 0, 0] = 1
Unpool_weights(num_channels, stride) ==
    Tensor(num_channels, 1, stride, stride,
           [t \in Indices(num_channels, 1, stride, stride) |->
                IF t[3] = 0 /\ t[4] = 0 THEN 1 ELSE 0])

\* the contribution of kernel entry (ki, kj) to output entry (oi, oj) of
\* channel c: the input entry the kernel entry lands on there, if any
ConvTTerm(x, weights, stride, b, c, oi, oj, ki, kj) ==
    LET di == oi - ki
        dj == oj - kj
    IN  IF /\ di >= 0 /\ di % stride = 0 /\ di \div stride < x.h
           /\ dj >= 0 /\ dj % stride = 0 /\ dj \div stride < x.w
        THEN x.v[<<b, c, di \div stride, dj \div stride>>] * weights.v[<<c, 0, ki, kj>>]
        ELSE 0

RECURSIVE ConvTSum(_, _, _, _, _, _, _, _)
\* the sum of the contributions of the kernel entries n, n+1, ... in row order
ConvTSum(x, weights, stride, b, c, oi, oj, n) ==
    IF n >= weights.h * weights.w THEN 0
    ELSE ConvTTerm(x, weights, stride, b, c, oi, oj, n \div weights.w, n % weights.w)
         + ConvTSum(x, weights, stride, b, c, oi, oj, n + 1)

\* F.conv_transpose2d(x, weights, stride=stride, groups=groups) for weights
\* of shape (groups, 1, kh, kw): one input and one output channel per group
conv_transpose2d(x, weights, stride, groups) ==
    IF x.c # weights.b \/ weights.b # groups
    THEN Error("RuntimeError", "expected input to have channels", Str(weights.b))
    ELSE LET oh == (x.h - 1) * stride + (weights.h - 1) + 1
             ow == (x.w - 1) * stride + (weights.w - 1) + 1
         IN  Tensor(x.b, groups * weights.c, oh, ow,
                    [t \in Indices(x.b, groups * weights.c, oh, ow) |->
                         ConvTSum(x, weights, stride, t[1], t[2], t[3], t[4], 0)])

Unpool_forward(m, x) ==
    conv_transpose2d(x, Unpool_weights(m.cin, m.stride), m.stride, m.cin)

----------------------------------------------------------------------------
\* choose_decoder.

S_deconv == <<"d", "e", "c", "o", "n", "v">>

S_upproj == <<"u", "p", "p", "r", "o", "j">>

S_upconv == <<"u", "p", "c", "o", "n", "v">>

S_fasterupproj == <<"f", "a", "s", "t", "e", "r", "u", "p", "p", "r", "o", "j">>

S_fasterupconv == <<"f", "a", "s", "t", "e", "r", "u", "p", "c", "o", "n", "v">>

\* choose_decoder with the upconv and fasterupproj branches returning the
\* pixel-shuffle UpConv
choose_decoder_faster(decoder, in_channels) ==
    IF Prefix(decoder, 6) = S_deconv
    THEN IF Len(decoder) # 7
         THEN Error("AssertionError", "", <<>>)
         ELSE IF IntOfChar(decoder[7]) < 0
         THEN Error("ValueError", "invalid literal for int() with base 10: ",
                    <<decoder[7]>>)
         ELSE DeConv(in_channels, IntOfChar(decoder[7]))
    ELSE IF decoder = S_upproj THEN UpProj(in_channels)
    ELSE IF decoder = S_upconv THEN FasterUpConv(in_channels)
    ELSE IF decoder = S_fasterupproj THEN FasterUpConv(in_channels)
    ELSE Error("AssertionError", "invalid option for decoder: ", decoder)

choose_decoder(decoder, in_channels) ==
    IF Prefix(decoder, 6) = S_deconv
    THEN IF Len(decoder) # 7
         THEN Error("AssertionError", "", <<>>)
         ELSE IF IntOfChar(decoder[7]) < 0
         THEN Error("ValueError", "invalid literal for int() with base 10: ",
                    <<decoder[7]>>)
         ELSE DeConv(in_channels, IntOfChar(decoder[7]))
    ELSE IF decoder = S_upproj THEN UpProj(in_channels)
    ELSE IF decoder = S_upconv THEN UpConv(in_channels)
    ELSE IF decoder = S_fasterupproj THEN FasterUpProj(in_channels)
    ELSE Error("AssertionError", "invalid option for decoder: ", decoder)

\* The names tried: deconv followed by one character, by none and by two,
\* the three other selectable names, and names no branch accepts.
DecoderNames ==
    {S_deconv \o <<ch>> : ch \in {Digits[i] : i \in 1..10} \cup {"x", "-"}}
    \cup {S_deconv, S_deconv \o <<"1", "0">>, S_deconv \o <<"3", "3">>}
    \cup {S_upproj, S_upconv, S_fasterupproj, S_fasterupconv}
    \cup {<<>>, <<"d", "e", "c", "o", "n">>, <<"u", "p">>,
          <<"U", "p", "P", "r", "o", "j">>}

\* The names section 4.3 of the design recognises
DeconvName(k) == S_deconv \o <<Digits[k + 1]>>

RecognizedNames ==
    {DeconvName(k) : k \in 2..9} \cup {S_upproj, S_upconv, S_fasterupproj}

----------------------------------------------------------------------------
\* Decoders: the state machine.

\* req.mode is the training flag the call ran under
NoReq == [op |-> "none", name |-> <<>>, class |-> "", in_channels |-> 0,
          kernel_size |-> 0, mode |-> TRUE]

\* the direct constructor call class(in_channels[, kernel_size])
Construct(class, in_channels, kernel_size) ==
    CASE class = "DeConv" -> DeConv(in_channels, kernel_size)
      [] class = "UpConv" -> UpConv(in_channels)
      [] class = "FasterUpConv" -> FasterUpConv(in_channels)
      [] class = "UpProj" -> UpProj(in_channels)
      [] class = "FasterUpProj" -> FasterUpProj(in_channels)

\* The inputs given to a decoder built for c channels: every batch size and
\* spatial size of the bounds, with c channels or with half as many.
InputShapes(c) == {Shape(b, cx, h, w) : b \in 1..MaxBatch, cx \in {c, c \div 2},
                                        h \in 1..MaxHW, w \in 1..MaxHW}

UnpoolIdle == /\ um = None /\ ux = None /\ uy = None

NoNetReq == [op |-> "none", layers |-> 0, decoder |-> <<>>, output_size |-> <<0, 0>>,
             in_channels |-> 0, pretrained |-> TRUE, mode |-> TRUE]

NetIdle ==
    /\ nreq = NoNetReq
    /\ net = None
    /\ nlog = <<>>
    /\ ntraining = TRUE
    /\ frozen = {}
    /\ v1x = <<>>
    /\ v10x = <<>>
    /\ nfwd = <<>>

\* the names the script has bound when it reaches the epoch loop: its imports
\* and its module-level assignments and definitions
ModuleNames ==
    {"torch", "nn", "F", "torchvision", "collections", "math", "time",
     "weights_init", "Unpool", "Decoder", "DeConv", "UpConv", "FasterUpConv",
     "UpProj", "FasterUpProj", "choose_decoder", "ResNet",
     "DataLoader", "data", "MaskedMSELoss", "MaskedL1Loss", "berHuLoss",
     "model", "start_epoch", "lr", "train_params", "optimizer", "criterion",
     "train"}

NoExc == [exc |-> "", name |-> ""]

\* the script has run up to the epoch loop
ScriptLoaded ==
    /\ pc = "for"
    /\ globals = ModuleNames
    /\ locals = {}
    /\ epoch = 0 - 1
    /\ iter_ = 0
    /\ decays = 0
    /\ saved = <<>>
    /\ raised = NoExc

\* no run directory yet, no call of get_output_directory yet
NoRuns ==
    /\ runs = {}
    /\ oreq = [op |-> "", resume |-> FALSE]
    /\ oret = 0 - 1

Init ==
    /\ req = NoReq
    /\ dec = None
    /\ training = TRUE
    /\ fwd = <<>>
    /\ UnpoolIdle
    /\ NetIdle
    /\ ScriptLoaded
    /\ NoRuns

ChooseDecoder ==
    \E name \in DecoderNames, c \in InChannels :
        /\ dec = None
        /\ req' = [op |-> "choose_decoder", name |-> name, class |-> "",
                   in_channels |-> c, kernel_size |-> 0, mode |-> training]
        /\ dec' = choose_decoder(name, c)
        /\ fwd' = <<>>
        /\ UNCHANGED <<training, unpoolVars, netVars, hostVars>>

ConstructDeConv ==
    \E c \in InChannels, k \in MinKernel..MaxKernel :
        /\ dec = None
        /\ req' = [op |-> "construct", name |-> <<>>, class |-> "DeConv",
                   in_channels |-> c, kernel_size |-> k, mode |-> training]
        /\ dec' = Construct("DeConv", c, k)
        /\ fwd' = <<>>
        /\ UNCHANGED <<training, unpoolVars, netVars, hostVars>>

ConstructOther ==
    \E c \in InChannels, class \in DecoderClasses \ {"DeConv"} :
        /\ dec = None
        /\ req' = [op |-> "construct", name |-> <<>>, class |-> class,
                   in_channels |-> c, kernel_size |-> 0, mode |-> training]
        /\ dec' = Construct(class, c, 0)
        /\ fwd' = <<>>
        /\ UNCHANGED <<training, unpoolVars, netVars, hostVars>>

\* Module.train() and Module.eval()
Train ==
    /\ IsDecoder(dec)
    /\ ~training
    /\ training' = TRUE
    /\ req' = [req EXCEPT !.op = "train", !.mode = TRUE]
    /\ fwd' = <<>>
    /\ UNCHANGED <<dec, unpoolVars, netVars, hostVars>>

Eval ==
    /\ IsDecoder(dec)
    /\ training
    /\ training' = FALSE
    /\ req' = [req EXCEPT !.op = "eval", !.mode = FALSE]
    /\ fwd' = <<>>
    /\ UNCHANGED <<dec, unpoolVars, netVars, hostVars>>

DecoderForward ==
    \E x \in InputShapes(IF IsDecoder(dec) THEN dec.in_channels ELSE 0) :
        /\ IsDecoder(dec)
        /\ req' = [op |-> "forward", name |-> <<>>, class |-> dec.kind,
                   in_channels |-> dec.in_channels, kernel_size |-> dec.kernel_size,
                   mode |-> training]
        /\ fwd' = Decoder_forward(dec, x, training)
        /\ UNCHANGED <<dec, training, unpoolVars, netVars, hostVars>>

Next ==
    \/ ChooseDecoder
    \/ ConstructDeConv
    \/ ConstructOther
    \/ Train
    \/ Eval
    \/ DecoderForward

Spec == Init /\ [][Next]_vars

----------------------------------------------------------------------------
\* Properties of the decoders.

\* the decoder classes whose stages normalise before they upsample
NormalisesFirst == {"FasterUpConv", "FasterUpProj"}

\* a forward pass has run on a decoder built for a channel count divisible
\* by 16, on an input with that many channels
C1_Case ==
    /\ req.op = "forward"
    /\ dec.in_channels % 16 = 0
    /\ fwd[1].c = dec.in_channels

\* the input of the last forward holds a single value per channel and the
\* decoder is in training mode
C1_SingleValue ==
    /\ req.mode
    /\ fwd[1].b * fwd[1].h * fwd[1].w = 1

\* every stage halves the channels and doubles height and width, and the
\* output is (batch, in_channels/16, 16*H, 16*W)
C1_ShapeContract ==
    /\ \A i \in 1..4 :
          /\ ~IsErr(fwd[i + 1])
          /\ fwd[i + 1].b = fwd[i].b
          /\ 2 * fwd[i + 1].c = fwd[i].c
          /\ fwd[i + 1].h = 2 * fwd[i].h
          /\ fwd[i + 1].w = 2 * fwd[i].w
    /\ fwd[5] = Shape(fwd[1].b, dec.in_channels \div 16, 16 * fwd[1].h, 16 * fwd[1].w)

\* C1 as stated: for each of the five decoder variants, every in_channels
\* divisible by 16 and every input shape (batch, in_channels, H, W) with
\* H, W >= 1, forward applies layer1..layer4 in order, each stage halving the
\* channels and doubling H and W, so the output is
\* (batch, in_channels/16, 16*H, 16*W) whatever the variant.
C1_Original == C1_Case => C1_ShapeContract

\* C1 as amended: the same, for every input but one kind: FasterUpConv and
\* FasterUpProj in training mode reject an input with batch * H * W = 1,
\* because their stages batch-normalise at the input's resolution, and batch
\* normalisation in training mode needs more than one value per channel.
C1_ForwardShape ==
    C1_Case =>
        IF dec.kind \in NormalisesFirst /\ C1_SingleValue
        THEN /\ IsErr(fwd[2])
             /\ fwd[2].exc = "ValueError"
             /\ fwd[5] = fwd[2]
        ELSE C1_ShapeContract

C1_Witness ==
    /\ C1_Case
    /\ dec.kind = "FasterUpProj"
    /\ req.mode
    /\ dec.in_channels = 32
    /\ fwd[1] = Shape(2, 32, 1, 2)
    /\ fwd[5] = Shape(2, 2, 16, 32)

\* C2: choose_decoder(name, in_channels) returns a DeConv with kernel_size k
\* for 'deconvk', k in 2..9, an UpProj for 'upproj', an UpConv for 'upconv', a
\* FasterUpProj for 'fasterupproj', each built with the given in_channels (its
\* first stage consumes in_channels), and never returns a FasterUpConv.
C2_ChooseDecoder ==
    req.op = "choose_decoder" =>
        /\ \A k \in 2..9 :
              req.name = DeconvName(k) =>
                  /\ dec.kind = "DeConv"
                  /\ dec.kernel_size = k
                  /\ \A i \in 1..4 :
                        LET ct == dec.children[i].m.children[1].m
                        IN  ct.kind = "ConvTranspose2d" /\ ct.kh = k /\ ct.kw = k
                  /\ dec.children[1].m.children[1].m.cin = req.in_channels
        /\ req.name = S_upproj =>
              /\ dec.kind = "UpProj"
              /\ dec.children[1].m.kind = "UpProjModule"
              /\ Sub(dec.children[1].m, "unpool").cin = req.in_channels
        /\ req.name = S_upconv =>
              /\ dec.kind = "UpConv"
              /\ Sub(dec.children[1].m, "unpool").cin = req.in_channels
              /\ Sub(dec.children[1].m, "conv").cin = req.in_channels
        /\ req.name = S_fasterupproj =>
              /\ dec.kind = "FasterUpProj"
              /\ dec.children[1].m.kind = "FasterUpProjModule"
              /\ Sub(Sub(Sub(dec.children[1].m, "bottom_branch"), "conv1_"), "conv1").cin
                     = req.in_channels
        /\ req.name \in RecognizedNames => dec.in_channels = req.in_channels
        /\ dec.kind # "FasterUpConv"

C2_Witness ==
    /\ req.op = "choose_decoder"
    /\ req.name = DeconvName(9)
    /\ req.in_channels = 32
    /\ dec.kind = "DeConv"
    /\ dec.kernel_size = 9

\* C3: for every name outside {deconv2..deconv9, upproj, upconv,
\* fasterupproj}, names of the wrong length or with a bad seventh character
\* included, choose_decoder returns no decoder and raises an error whose
\* message carries the rejected value (the name, or the part of it refused).
C3_UnrecognizedNamed ==
    (req.op = "choose_decoder" /\ req.name \notin RecognizedNames) =>
        /\ IsErr(dec)
        /\ \/ dec.arg = req.name
           \/ /\ Len(req.name) = 7
              /\ dec.arg \in {<<req.name[7]>>, Str(IntOfChar(req.name[7]))}

\* C7: constructing a decoder, directly or through choose_decoder, with an
\* in_channels not divisible by 16 raises an error; no decoder with
\* rounded-down stage widths is built.
C7_ChannelsRejected ==
    (req.op \in {"construct", "choose_decoder"} /\ req.in_channels % 16 # 0) =>
        IsErr(dec)

\* C9: DeConv(in_channels, kernel_size) is rejected if and only if
\* kernel_size < 2, by the range assertion; for kernel_size >= 2 every
\* stage's padding and output padding are (kernel_size-1)//2 and
\* kernel_size mod 2, they satisfy -2 - 2*padding + kernel_size +
\* output_padding = 0, and the stage's transposed convolution maps H to 2*H.
C9_DeConvAccepted ==
    /\ (req.op = "construct" /\ req.class = "DeConv") =>
          LET k == req.kernel_size
          IN  /\ IsErr(dec) <=> k < 2
              /\ IsErr(dec) =>
                    /\ dec.exc = "AssertionError"
                    /\ dec.text = "kernel_size out of range: "
                    /\ dec.arg = Str(k)
              /\ ~IsErr(dec) =>
                    \A i \in 1..4 :
                        LET ct == dec.children[i].m.children[1].m
                        IN  /\ ct.kind = "ConvTranspose2d"
                            /\ ct.stride = 2
                            /\ 2 * ct.ph \in {k - 1, k - 2}
                            /\ ct.opad \in {0, 1} /\ (k - ct.opad) % 2 = 0
                            /\ 0 - 2 - 2 * ct.ph + k + ct.opad = 0
                            /\ \A h \in 1..(MaxHW + 2) :
                                  LET y == ConvTranspose2dForward(ct, Shape(1, ct.cin, h, h))
                                  IN  y.h = 2 * h /\ y.w = 2 * h
    /\ (req.op = "forward" /\ dec.kind = "DeConv" /\ fwd[1].c = dec.in_channels) =>
          \A i \in 1..4 : /\ ~IsErr(fwd[i + 1])
                          /\ fwd[i + 1].h = 2 * fwd[i].h
                          /\ fwd[i + 1].w = 2 * fwd[i].w

C9_Witness ==
    /\ req.op = "forward"
    /\ dec.kind = "DeConv"
    /\ dec.kernel_size = 10
    /\ dec.in_channels = 24
    /\ fwd[1] = Shape(1, 24, 1, 1)
    /\ fwd[5] = Shape(1, 1, 16, 16)

----------------------------------------------------------------------------
\* Unpool: the state machine.

OnesTensor(b, c, h, w) == Tensor(b, c, h, w, [t \in Indices(b, c, h, w) |-> 1])

\* every entry different: entry <<b, c, i, j>> holds its row-major rank plus 1
CodedTensor(b, c, h, w) ==
    Tensor(b, c, h, w, [t \in Indices(b, c, h, w) |->
                            1 + ((t[1] * c + t[2]) * h + t[3]) * w + t[4]])

\* a single non-zero entry, at p
OneHotTensor(b, c, h, w, p) ==
    Tensor(b, c, h, w, [t \in Indices(b, c, h, w) |-> IF t = p THEN 1 ELSE 0])

UnpoolShapes == (1..MaxUB) \X (1..MaxUC) \X (1..MaxUHW) \X (1..MaxUHW)

UnpoolInputs ==
    UNION {{OnesTensor(q[1], q[2], q[3], q[4]), CodedTensor(q[1], q[2], q[3], q[4])}
           \cup {OneHotTensor(q[1], q[2], q[3], q[4], p) :
                    p \in Indices(q[1], q[2], q[3], q[4])} : q \in UnpoolShapes}

UnpoolConstruct ==
    \E c \in 1..MaxUC, stride \in 1..MaxStride :
        /\ um = None
        /\ um' = Unpool(c, stride)
        /\ UNCHANGED <<req, dec, training, fwd, ux, uy, netVars, hostVars>>

UnpoolForward ==
    \E x \in UnpoolInputs :
        /\ um # None
        /\ ux' = x
        /\ uy' = Unpool_forward(um, x)
        /\ UNCHANGED <<req, dec, training, fwd, um, netVars, hostVars>>

NextUnpool == UnpoolConstruct \/ UnpoolForward

SpecUnpool == Init /\ [][NextUnpool]_vars

\* C6: Unpool(C, s).forward on an input of shape (B, C, H, W) returns shape
\* (B, C, s*H, s*W) with output[b, c, s*i, s*j] = input[b, c, i, j] and zero
\* at every other position, channel by channel; stride 2 on the 1x1x2x2
\* all-ones input gives the 1x1x4x4 output that is 1 at (0,0), (0,2), (2,0),
\* (2,2) and 0 elsewhere.  The shape is the one the decoders' stages rely on.
C6_Unpool ==
    (ux # None /\ ux.c = um.cin) =>
        LET s == um.stride
        IN  /\ uy.kind = "tensor"
            /\ uy.b = ux.b /\ uy.c = um.cin /\ uy.h = s * ux.h /\ uy.w = s * ux.w
            /\ DOMAIN uy.v = Indices(ux.b, um.cin, s * ux.h, s * ux.w)
            /\ \A t \in Indices(ux.b, ux.c, ux.h, ux.w) :
                  uy.v[<<t[1], t[2], s * t[3], s * t[4]>>] = ux.v[t]
            /\ \A t \in DOMAIN uy.v :
                  (t[3] % s # 0 \/ t[4] % s # 0) => uy.v[t] = 0
            /\ (s = 2 /\ ux = OnesTensor(1, 1, 2, 2)) =>
                  {t \in DOMAIN uy.v : uy.v[t] = 1}
                      = {<<0, 0, 0, 0>>, <<0, 0, 0, 2>>, <<0, 0, 2, 0>>, <<0, 0, 2, 2>>}
            /\ UnpoolShape(um, Shape(ux.b, ux.c, ux.h, ux.w))
                  = Shape(uy.b, uy.c, uy.h, uy.w)

C6_Witness ==
    /\ um # None
    /\ um.stride = 2
    /\ ux = OnesTensor(1, 1, 2, 2)
    /\ uy.kind = "tensor"
    /\ uy.h = 4 /\ uy.w = 4
    /\ uy.v[<<0, 0, 2, 2>>] = 1
    /\ uy.v[<<0, 0, 1, 1>>] = 0

----------------------------------------------------------------------------
\* The network: weights_init and the pretrained network it wraps.

weights_init(m) ==
    LET called == [m EXCEPT !.applied = Append(@, "weights_init")]
    IN  CASE m.kind = "Conv2d" ->
                 [called EXCEPT !.w = [weight |-> "normal", n |-> m.kh * m.kw * m.cout,
                                       bias |-> IF m.bias THEN "zeros" ELSE "none"]]
          [] m.kind = "ConvTranspose2d" ->
                 [called EXCEPT !.w = [weight |-> "normal", n |-> m.kh * m.kw * m.cin,
                                       bias |-> IF m.bias THEN "zeros" ELSE "none"]]
          [] m.kind = "BatchNorm2d" ->
                 [called EXCEPT !.w = [weight |-> "ones", n |-> 0, bias |-> "zeros"]]
          [] OTHER -> called

RECURSIVE Apply(_)
\* m.apply(weights_init): on every child, recursively, and then on m itself
Apply(m) ==
    weights_init([m EXCEPT !.children =
                      [i \in 1..Len(m.children) |->
                           Item(m.children[i].name, Apply(m.children[i].m))]])

RECURSIVE Provided(_, _)
\* a module of the pretrained network, its weights as the provider left them
Provided(m, weights) ==
    LET kids == [i \in 1..Len(m.children) |->
                     Item(m.children[i].name, Provided(m.children[i].m, weights))]
        own  == [m EXCEPT !.origin = "provider", !.children = kids]
    IN  IF "w" \in DOMAIN m
        THEN [own EXCEPT !.w = [weight |-> weights, n |-> 0,
                                bias |-> IF m.bias THEN weights ELSE "none"]]
        ELSE own

\* BasicBlock.expansion for resnet18 and resnet34, Bottleneck.expansion beyond
expansion(layers) == IF layers <= 34 THEN 1 ELSE 4

\* A stage of torchvision's ResNet, represented by its channel counts, its
\* stride and the first convolution and normalisation of its first block.
ResNetStage(cin, cout, stride) ==
    [kind |-> "ResNetStage", cin |-> cin, cout |-> cout, stride |-> stride,
     children |-> <<Item("0", Container("Block", <<
                        Item("conv1", Conv2d(cin, cout, 3, 3, stride, 1, 1, FALSE)),
                        Item("bn1", BatchNorm2d(cout))>>))>>,
     origin |-> "new", applied |-> <<>>]

Linear(cin, cout) ==
    [kind |-> "Linear", cin |-> cin, cout |-> cout, bias |-> TRUE,
     children |-> <<>>, w |-> Fresh(TRUE), origin |-> "new", applied |-> <<>>]

\* torchvision.models.__dict__['resnet{}'.format(layers)](pretrained=pretrained)
pretrained_model(layers, pretrained) ==
    LET e == expansion(layers)
    IN  Provided(Container("torchvision.ResNet", <<
            Item("conv1", Conv2d(3, 64, 7, 7, 2, 3, 3, FALSE)),
            Item("bn1", BatchNorm2d(64)),
            Item("relu", ReLU),
            Item("maxpool", MaxPool2d(3, 2, 1)),
            Item("layer1", ResNetStage(64, 64 * e, 1)),
            Item("layer2", ResNetStage(64 * e, 128 * e, 2)),
            Item("layer3", ResNetStage(128 * e, 256 * e, 2)),
            Item("layer4", ResNetStage(256 * e, 512 * e, 2)),
            Item("avgpool", Container("AdaptiveAvgPool2d", <<>>)),
            Item("fc", Linear(512 * e, 1000))>>),
          IF pretrained THEN "pretrained" ELSE "provider_init")

----------------------------------------------------------------------------
\* The network: ResNet.__init__.

\* the depths without 152
SupportedLayers_short == {18, 34, 50, 101}

SupportedLayers == {18, 34, 50, 101, 152}

\* the deepest feature map taken to have 512 channels at every depth
num_channels_basic(layers) == 512

\* "define number of intermediate channels"; a depth between 34 and 50 would
\* leave the name unbound, and none passes the constructor's first check
num_channels(layers) ==
    IF layers <= 34 THEN 512 ELSE IF layers >= 50 THEN 2048 ELSE 0

\* the stem of the pretrained network kept whatever in_channels is
stem_is_pretrained_always(in_channels) == TRUE

\* the test "if in_channels == 3" that keeps the pretrained stem
stem_is_pretrained(in_channels) == in_channels = 3

\* what the constructor does once the depth has passed its check
ResNet_build(layers, decoder, output_size, in_channels, pretrained) ==
    LET pm == pretrained_model(layers, pretrained)
        keep == stem_is_pretrained(in_channels)
        conv1 == IF keep THEN Sub(pm, "conv1")
                 ELSE weights_init(Conv2d(in_channels, 64, 7, 7, 2, 3, 3, FALSE))
        bn1 == IF keep THEN Sub(pm, "bn1") ELSE weights_init(BatchNorm2d(64))
        nc == num_channels(layers)
        conv2 == Conv2d(nc, nc \div 2, 1, 1, 1, 0, 0, FALSE)
        bn2 == BatchNorm2d(nc \div 2)
        upSample == choose_decoder(decoder, nc \div 2)
        conv3 == Conv2d(nc \div 32, 1, 3, 3, 1, 1, 1, FALSE)
        bilinear == Upsample(output_size)
        stemLog == IF keep THEN <<>>
                   ELSE <<"nn.Conv2d conv1", "nn.BatchNorm2d bn1",
                          "weights_init conv1", "weights_init bn1">>
        log == <<"torchvision.models.resnet">> \o stemLog
               \o <<"del pretrained_model", "nn.Conv2d conv2", "nn.BatchNorm2d bn2",
                    "choose_decoder">>
    IN  IF IsErr(upSample)
        THEN [net |-> upSample, log |-> log]
        ELSE [net |-> [kind |-> "ResNet", output_size |-> output_size,
                       children |-> <<
                           Item("conv1", conv1),
                           Item("bn1", bn1),
                           Item("relu", Sub(pm, "relu")),
                           Item("maxpool", Sub(pm, "maxpool")),
                           Item("layer1", Sub(pm, "layer1")),
                           Item("layer2", Sub(pm, "layer2")),
                           Item("layer3", Sub(pm, "layer3")),
                           Item("layer4", Sub(pm, "layer4")),
                           Item("conv2", Apply(conv2)),
                           Item("bn2", Apply(bn2)),
                           Item("upSample", Apply(upSample)),
                           Item("conv3", Apply(conv3)),
                           Item("bilinear", bilinear)>>,
                       origin |-> "new", applied |-> <<>>],
              log |-> log \o <<"nn.Conv2d conv3", "nn.Upsample bilinear",
                               "apply conv2", "apply bn2", "apply upSample",
                               "apply conv3">>]

ResNet_init(layers, decoder, output_size, in_channels, pretrained) ==
    IF layers \notin SupportedLayers
    THEN [net |-> Error("RuntimeError",
                        "Only 18, 34, 50, 101, and 152 layer model are defined for ResNet. Got ",
                        Str(layers)),
          log |-> <<>>]
    ELSE ResNet_build(layers, decoder, output_size, in_channels, pretrained)

IsNet(n) == n.kind = "ResNet"

----------------------------------------------------------------------------
\* The network: forward and the parameter views.

\* ResNet.forward: the input and the value of x after each of its lines
ResNet_forward(n, x, train) ==
    Lines(n, <<"conv1", "bn1", "relu", "maxpool", "layer1", "layer2", "layer3",
               "layer4", "conv2", "bn2", "upSample", "conv3", "bilinear">>,
          1, <<x>>, train)

RECURSIVE Parameters(_, _)
RECURSIVE ChildParameters(_, _, _)

\* the parameters of the children i, i+1, ... of m, m being at path
ChildParameters(m, path, i) ==
    IF i > Len(m.children) THEN <<>>
    ELSE Parameters(m.children[i].m, Append(path, m.children[i].name))
         \o ChildParameters(m, path, i + 1)

\* Module.parameters(): the module's own weight and bias, then its children's,
\* each parameter named by its path from the network
Parameters(m, path) ==
    (IF "w" \in DOMAIN m
     THEN <<Append(path, "weight")>>
          \o (IF m.bias THEN <<Append(path, "bias")>> ELSE <<>>)
     ELSE <<>>)
    \o ChildParameters(m, path, 1)

RECURSIVE YieldTrainable(_, _, _, _)
\* for i in range(len(b)): for k in b[i].parameters(): if k.requires_grad: yield k
YieldTrainable(n, b, i, frz) ==
    IF i > Len(b) THEN <<>>
    ELSE SelectSeq(Parameters(Sub(n, b[i]), <<b[i]>>), LAMBDA k : k \notin frz)
         \o YieldTrainable(n, b, i + 1, frz)

get_1x_lr_params(n, frz) ==
    YieldTrainable(n, <<"conv1", "bn1", "relu", "maxpool",
                        "layer1", "layer2", "layer3", "layer4">>, 1, frz)

\* the list b of get_10x_lr_params without conv3
get_10x_lr_params_short(n, frz) ==
    YieldTrainable(n, <<"conv2", "bn2", "upSample", "bilinear">>, 1, frz)

get_10x_lr_params(n, frz) ==
    YieldTrainable(n, <<"conv2", "bn2", "upSample", "conv3", "bilinear">>, 1, frz)

----------------------------------------------------------------------------
\* The network: the state machine.

NetLayers == {18, 34, 50, 101, 152} \cup {0, 49, 200}

NetDecoderNames ==
    RecognizedNames \cup {S_fasterupconv, S_deconv \o <<"1", "0">>, DeconvName(1)}

OutputSizes == {<<90, 270>>, <<228, 304>>}

NetInChannels == {3, 4}

\* height and width of the images given to the network
ImageSizes == {<<1, 1>>, <<32, 32>>, <<32, 33>>, <<228, 304>>}

NetInputs == {Shape(b, c, q[1], q[2]) : b \in 1..MaxBatch, c \in NetInChannels,
                                        q \in ImageSizes}

NetConstruct ==
    \E layers \in NetLayers, decoder \in NetDecoderNames, output_size \in OutputSizes,
       in_channels \in NetInChannels, pretrained \in BOOLEAN :
        LET r == ResNet_init(layers, decoder, output_size, in_channels, pretrained)
        IN  /\ net = None
            /\ nreq' = [op |-> "construct", layers |-> layers, decoder |-> decoder,
                        output_size |-> output_size, in_channels |-> in_channels,
                        pretrained |-> pretrained, mode |-> ntraining]
            /\ net' = r.net
            /\ nlog' = r.log
            /\ UNCHANGED <<ntraining, frozen, v1x, v10x, nfwd>>
            /\ UNCHANGED <<req, dec, training, fwd, unpoolVars, hostVars>>

\* model.train() and model.eval()
NetTrain ==
    /\ IsNet(net)
    /\ ~ntraining
    /\ ntraining' = TRUE
    /\ nreq' = [nreq EXCEPT !.op = "train", !.mode = TRUE]
    /\ nfwd' = <<>>
    /\ UNCHANGED <<net, nlog, frozen, v1x, v10x>>
    /\ UNCHANGED <<req, dec, training, fwd, unpoolVars, hostVars>>

NetEval ==
    /\ IsNet(net)
    /\ ntraining
    /\ ntraining' = FALSE
    /\ nreq' = [nreq EXCEPT !.op = "eval", !.mode = FALSE]
    /\ nfwd' = <<>>
    /\ UNCHANGED <<net, nlog, frozen, v1x, v10x>>
    /\ UNCHANGED <<req, dec, training, fwd, unpoolVars, hostVars>>

NetForward ==
    \E x \in NetInputs :
        /\ IsNet(net)
        /\ nreq' = [nreq EXCEPT !.op = "forward", !.mode = ntraining]
        /\ nfwd' = ResNet_forward(net, x, ntraining)
        /\ UNCHANGED <<net, nlog, ntraining, frozen, v1x, v10x>>
        /\ UNCHANGED <<req, dec, training, fwd, unpoolVars, hostVars>>

NextNet == NetConstruct \/ NetTrain \/ NetEval \/ NetForward

SpecNet == Init /\ [][NextNet]_vars

Range(f) == {f[i] : i \in DOMAIN f}

\* for p in net.<attribute>.parameters(): p.requires_grad = False, for an
\* attribute that holds parameters, none of them frozen yet
Freeze ==
    \E i \in (IF IsNet(net) THEN 1..Len(net.children) ELSE {}) :
        LET ps == Range(Parameters(net.children[i].m, <<net.children[i].name>>))
        IN  /\ Cardinality({p[1] : p \in frozen}) < MaxFrozen
            /\ net.children[i].name \notin {p[1] : p \in frozen}
            /\ ps # {}
            /\ frozen' = frozen \cup ps
            /\ nreq' = [nreq EXCEPT !.op = "freeze"]
            /\ v1x' = <<>>
            /\ v10x' = <<>>
            /\ UNCHANGED <<net, nlog, ntraining, nfwd>>
            /\ UNCHANGED <<req, dec, training, fwd, unpoolVars, hostVars>>

\* list(model.get_1x_lr_params()) and list(model.get_10x_lr_params())
GetLrParams ==
    /\ IsNet(net)
    /\ nreq.op # "get_lr_params"
    /\ nreq' = [nreq EXCEPT !.op = "get_lr_params"]
    /\ v1x' = get_1x_lr_params(net, frozen)
    /\ v10x' = get_10x_lr_params(net, frozen)
    /\ UNCHANGED <<net, nlog, ntraining, frozen, nfwd>>
    /\ UNCHANGED <<req, dec, training, fwd, unpoolVars, hostVars>>

NextParams == NetConstruct \/ Freeze \/ GetLrParams

SpecParams == Init /\ [][NextParams]_vars

----------------------------------------------------------------------------
\* Properties of the network.

RECURSIVE AllModules(_, _)
\* every module of the tree under m, m included, with its path from the root
AllModules(m, path) ==
    {[path |-> path, kind |-> m.kind, origin |-> m.origin, applied |-> m.applied,
      w |-> IF "w" \in DOMAIN m THEN m.w ELSE [weight |-> "none", n |-> 0, bias |-> "none"]]}
    \cup UNION {AllModules(m.children[i].m, Append(path, m.children[i].name)) :
                   i \in 1..Len(m.children)}

\* C4: ResNet(layers=...) with a depth other than 18, 34, 50, 101, 152 raises
\* an error that names the depth, before the pretrained network is fetched
\* and before any layer or decoder is built; each of the five depths passes
\* the check, so that the pretrained network is fetched first of all.
C4_DepthChecked ==
    nreq.op = "construct" =>
        IF nreq.layers \in {18, 34, 50, 101, 152}
        THEN /\ ~(IsErr(net) /\ net.exc = "RuntimeError")
             /\ nlog # <<>>
             /\ nlog[1] = "torchvision.models.resnet"
        ELSE /\ IsErr(net)
             /\ net.exc = "RuntimeError"
             /\ net.arg = Str(nreq.layers)
             /\ nlog = <<>>

C4_Witness ==
    /\ nreq.op = "construct"
    /\ nreq.layers = 200
    /\ IsErr(net)
    /\ net.arg = <<"2", "0", "0">>
    /\ nlog = <<>>

\* C5: for every network built, get_1x_lr_params and get_10x_lr_params
\* partition its trainable parameters: a parameter of the network that
\* requires grad is yielded exactly once, by one of the two, and one that
\* does not is yielded by neither; neither yields anything else.
C5_ParamsPartition ==
    nreq.op = "get_lr_params" =>
        LET all == Range(Parameters(net, <<>>))
            Count(seq, p) == Cardinality({i \in 1..Len(seq) : seq[i] = p})
        IN  /\ \A p \in all :
                  Count(v1x, p) + Count(v10x, p) = IF p \in frozen THEN 0 ELSE 1
            /\ Range(v1x) \cup Range(v10x) \subseteq all
            /\ all # {}

C5_Witness ==
    /\ nreq.op = "get_lr_params"
    /\ nreq.layers = 50
    /\ <<"layer4", "0", "bn1", "weight">> \in frozen
    /\ <<"layer3", "0", "bn1", "weight">> \in Range(v1x)
    /\ <<"conv3", "weight">> \in Range(v10x)
    /\ <<"upSample", "layer4", "bottom_branch", "batchnorm", "bias">> \in Range(v10x)

\* the attributes the constructor calls weights_init on
C8_Initialised(in_channels) ==
    {"conv2", "bn2", "upSample", "conv3"}
    \cup (IF in_channels # 3 THEN {"conv1", "bn1"} ELSE {})

\* C8: construction calls weights_init on conv2, bn2, every module of the
\* decoder and conv3, on the stem conv1 and bn1 if and only if
\* in_channels # 3 (they are then new layers sized for in_channels), once
\* each, and on nothing else: never on the backbone stages layer1..layer4
\* nor on the pretrained stem, which are the provider's modules with the
\* provider's weights.  Every new layer that holds weights is initialised;
\* the new layer left alone, bilinear, holds none.
C8_InitPolicy ==
    IsNet(net) =>
        LET provided == IF nreq.pretrained THEN "pretrained" ELSE "provider_init"
        IN  /\ \A mod \in AllModules(net, <<>>) :
                  /\ mod.applied = IF /\ mod.path # <<>>
                                      /\ mod.path[1] \in C8_Initialised(nreq.in_channels)
                                   THEN <<"weights_init">> ELSE <<>>
                  /\ mod.applied # <<>> => mod.origin = "new"
                  /\ mod.origin = "provider" =>
                        /\ mod.applied = <<>>
                        /\ mod.w.weight \in {provided, "none"}
                        /\ mod.w.bias \in {provided, "none"}
                  /\ (mod.path # <<>> /\ mod.path[1] \in {"layer1", "layer2", "layer3", "layer4",
                                                          "relu", "maxpool"}) =>
                        mod.origin = "provider"
                  /\ (mod.origin = "new" /\ mod.w.weight # "none") =>
                        /\ mod.applied = <<"weights_init">>
                        /\ mod.w.weight = IF mod.kind = "BatchNorm2d" THEN "ones" ELSE "normal"
                        /\ mod.w.bias \in {"zeros", "none"}
                  /\ (mod.origin = "new" /\ mod.applied = <<>>) =>
                        mod.path \in {<<>>, <<"bilinear">>}
            /\ LET conv1 == Sub(net, "conv1")
                   bn1 == Sub(net, "bn1")
               IN  IF nreq.in_channels = 3
                   THEN /\ conv1.origin = "provider" /\ bn1.origin = "provider"
                        /\ conv1.cin = 3
                   ELSE /\ conv1.origin = "new" /\ bn1.origin = "new"
                        /\ conv1.cin = nreq.in_channels /\ conv1.cout = 64
                        /\ conv1.w = [weight |-> "normal", n |-> 7 * 7 * 64, bias |-> "none"]
                        /\ bn1.cin = 64

C8_Witness ==
    /\ IsNet(net)
    /\ nreq.in_channels = 4
    /\ nreq.decoder = S_fasterupproj
    /\ Sub(net, "conv1").applied = <<"weights_init">>
    /\ Sub(Sub(Sub(Sub(net, "upSample"), "layer2"), "bottom_branch"), "ps").applied
           = <<"weights_init">>
    /\ Sub(Sub(Sub(net, "layer4"), "0"), "conv1").w.weight = "pretrained"

\* a forward pass has run on a network, on an input with in_channels channels
C10_Case ==
    /\ nreq.op = "forward"
    /\ nfwd[1].c = nreq.in_channels

\* the channel counts at the hand-offs: the deepest stage emits num_channels
\* (512 up to depth 34, 2048 from depth 50), conv2 takes them to half, the
\* decoder is built for that half and emits num_channels/32, conv3 takes
\* exactly those to 1 channel
C10_HandOffs ==
    LET nc == IF nreq.layers <= 34 THEN 512 ELSE 2048
        up == Sub(net, "upSample")
    IN  /\ Sub(net, "layer4").cout = nc
        /\ Sub(net, "conv2").cin = nc
        /\ Sub(net, "conv2").cout = nc \div 2
        /\ 2 * (nc \div 2) = nc
        /\ Sub(net, "bn2").cin = nc \div 2
        /\ up.in_channels = nc \div 2
        /\ \A b \in 1..MaxBatch, h \in 1..MaxHW :
              Decoder_forward(up, Shape(b, nc \div 2, h, h), FALSE)[5]
                  = Shape(b, nc \div 32, 16 * h, 16 * h)
        /\ 32 * (nc \div 32) = nc
        /\ Sub(net, "conv3").cin = nc \div 32
        /\ Sub(net, "conv3").cout = 1
        /\ Sub(net, "bilinear").size = nreq.output_size
        /\ net.output_size = nreq.output_size

\* the forward pass went through, with the channel counts of the hand-offs,
\* and returned (batch, 1, output_size[0], output_size[1])
C10_Returned ==
    LET nc == IF nreq.layers <= 34 THEN 512 ELSE 2048
    IN  /\ \A i \in 1..14 : ~IsErr(nfwd[i])
        /\ nfwd[9].c = nc
        /\ nfwd[10].c = nc \div 2
        /\ nfwd[12].c = nc \div 32
        /\ nfwd[12].h = 16 * nfwd[11].h /\ nfwd[12].w = 16 * nfwd[11].w
        /\ nfwd[13].c = 1
        /\ nfwd[14] = Shape(nfwd[1].b, 1, nreq.output_size[1], nreq.output_size[2])

\* C10 as stated: for every supported depth and selectable decoder the
\* channel counts agree at each hand-off (conv2: num_channels to half, the
\* decoder: half to num_channels/32, conv3: num_channels/32 to 1), and forward
\* returns (batch, 1, output_size[0], output_size[1]) regardless of the
\* input's spatial size.
C10_Original ==
    /\ IsNet(net) => C10_HandOffs
    /\ C10_Case => C10_Returned

\* C10 as amended: the same, for every input but one kind: in training mode
\* an input of batch 1 with H <= 32 and W <= 32, whose deepest feature map is
\* 1 x 1, is rejected, batch normalisation then having a single value per
\* channel.
C10_Pipeline ==
    /\ IsNet(net) => C10_HandOffs
    /\ C10_Case =>
          IF nreq.mode /\ nfwd[1].b = 1 /\ nfwd[1].h <= 32 /\ nfwd[1].w <= 32
          THEN /\ IsErr(nfwd[14])
               /\ nfwd[14].exc = "ValueError"
          ELSE C10_Returned

C10_Witness ==
    /\ C10_Case
    /\ nreq.layers = 101
    /\ nreq.decoder = S_upconv
    /\ nreq.mode
    /\ nfwd[1] = Shape(1, 3, 32, 33)
    /\ nfwd[9] = Shape(1, 2048, 1, 2)
    /\ nfwd[12] = Shape(1, 64, 16, 32)
    /\ nfwd[14] = Shape(1, 1, 90, 270)

----------------------------------------------------------------------------
\* The training script: the epoch loop, train() and the checkpoint.

\* for i in range(25)
Epochs == 25

\* the size of the training set and of a batch: range(43000//32)
Samples == 43000

BatchSize == 32

ItersPerEpoch == Samples \div BatchSize

\* if iter_ % 100 == 0: the learning rates are multiplied by 0.99
LrEvery == 100

\* the names Python finds without any binding in the script
Builtins == {"range", "next", "print"}

\* the parameters of train(train_loader, model, criterion, optimizer, epoch)
TrainParams == {"train_loader", "model", "criterion", "optimizer", "epoch"}

\* the names one pass through the body of train()'s loop binds in its frame
TrainBodyBinds(it) ==
    {"iter_", "input", "target", "pred", "loss"}
    \cup (IF it % LrEvery = 0 THEN {"param_group"} ELSE {})

\* the names the call train(data, model, criterion, optimizer, i) reads, in
\* the order Python evaluates them
TrainCallReads == <<"train", "data", "model", "criterion", "optimizer", "i">>

\* the names the checkpoint statement reads, in the order Python evaluates
\* them: torch.save, then the dictionary's values
CheckpointReads == <<"torch", "i", "model", "optimizer", "loss">>

\* name lookup at module level: the module's bindings, then the builtins; a
\* frame's locals are never visible outside the frame
Bound(name) == name \in globals \cup Builtins

\* the first name of reads that lookup at module level does not find, or ""
FirstUnbound(reads) ==
    IF \A k \in 1..Len(reads) : Bound(reads[k]) THEN ""
    ELSE reads[CHOOSE k \in 1..Len(reads) :
                   /\ ~Bound(reads[k])
                   /\ \A j \in 1..(k - 1) : Bound(reads[j])]

NameError(name) == [exc |-> "NameError", name |-> name]

\* the for statement: binds i to the next epoch, or ends the script
ForNext ==
    /\ pc = "for"
    /\ IF epoch + 1 < Epochs
       THEN /\ epoch' = epoch + 1
            /\ globals' = globals \cup {"i"}
            /\ pc' = "call"
       ELSE /\ pc' = "done"
            /\ UNCHANGED <<epoch, globals>>
    /\ UNCHANGED <<locals, iter_, decays, saved, raised>>
    /\ UNCHANGED <<req, dec, training, fwd, unpoolVars, netVars, dirVars>>

\* train(data, model, criterion, optimizer, i): a new frame with the
\* parameters bound; model.train()
TrainCall ==
    /\ pc = "call"
    /\ IF FirstUnbound(TrainCallReads) = ""
       THEN /\ locals' = TrainParams
            /\ iter_' = 0
            /\ pc' = "train"
            /\ UNCHANGED raised
       ELSE /\ raised' = NameError(FirstUnbound(TrainCallReads))
            /\ pc' = "raised"
            /\ UNCHANGED <<locals, iter_>>
    /\ UNCHANGED <<globals, epoch, decays, saved>>
    /\ UNCHANGED <<req, dec, training, fwd, unpoolVars, netVars, dirVars>>

\* one pass through the body of the loop of train(): the learning-rate
\* decay, the batch, the forward pass, loss = criterion(pred, target), the
\* optimizer step; every assignment binds a name of the frame
TrainIter ==
    /\ pc = "train"
    /\ iter_ < ItersPerEpoch
    /\ decays' = IF iter_ % LrEvery = 0 THEN decays + 1 ELSE decays
    /\ locals' = locals \cup TrainBodyBinds(iter_)
    /\ iter_' = iter_ + 1
    /\ UNCHANGED <<pc, globals, epoch, saved, raised>>
    /\ UNCHANGED <<req, dec, training, fwd, unpoolVars, netVars, dirVars>>

\* the loop is exhausted: train() returns None and its frame is gone
TrainReturn ==
    /\ pc = "train"
    /\ iter_ = ItersPerEpoch
    /\ locals' = {}
    /\ pc' = "checkpoint"
    /\ UNCHANGED <<globals, epoch, iter_, decays, saved, raised>>
    /\ UNCHANGED <<req, dec, training, fwd, unpoolVars, netVars, dirVars>>

\* torch.save({'epoch': i, 'model_state_dict': ..., 'optimizer_state_dict':
\* ..., 'loss': loss}, './ResNet.pth'), evaluated at module level
Checkpoint ==
    /\ pc = "checkpoint"
    /\ IF FirstUnbound(CheckpointReads) = ""
       THEN /\ saved' = Append(saved, [epoch |-> epoch,
                                       keys |-> {"epoch", "model_state_dict",
                                                 "optimizer_state_dict", "loss"}])
            /\ pc' = "for"
            /\ UNCHANGED raised
       ELSE /\ raised' = NameError(FirstUnbound(CheckpointReads))
            /\ pc' = "raised"
            /\ UNCHANGED saved
    /\ UNCHANGED <<globals, locals, epoch, iter_, decays>>
    /\ UNCHANGED <<req, dec, training, fwd, unpoolVars, netVars, dirVars>>

NextScript == ForNext \/ TrainCall \/ TrainIter \/ TrainReturn \/ Checkpoint

SpecScript == Init /\ [][NextScript]_vars

\* C11: the script runs epochs 0..24 in order and saves a checkpoint with
\* the epoch, the model state, the optimizer state and the loss after each
\* call of train(): every name the checkpoint statement reads, loss
\* included, is bound where the statement runs, so no exception ends the
\* script, and the script is done only with all 25 checkpoints written.
C11_DriverCompletes ==
    /\ pc = "checkpoint" => \A k \in 1..Len(CheckpointReads) : Bound(CheckpointReads[k])
    /\ raised = NoExc
    /\ pc # "raised"
    /\ \A k \in 1..Len(saved) : saved[k].epoch = k - 1
    /\ pc = "done" => Len(saved) = Epochs

----------------------------------------------------------------------------
\* get_output_directory and the run directories under the output root.

\* the largest run id the model lets a directory have
MaxRunId == 11

\* ord(ch) of the characters of a run directory's name
Ord(ch) == CASE ch = "_" -> 95
             [] ch = "n" -> 110
             [] ch = "r" -> 114
             [] ch = "u" -> 117
             [] OTHER -> 48 + IntOfChar(ch)

\* s < t for Python strings: the first differing character decides, a
\* proper prefix is smaller
StrLess(s, t) ==
    \/ /\ Len(s) < Len(t)
       /\ \A k \in 1..Len(s) : s[k] = t[k]
    \/ \E k \in 1..Len(s) :
          /\ k <= Len(t)
          /\ \A j \in 1..(k - 1) : s[j] = t[j]
          /\ Ord(s[k]) < Ord(t[k])

\* 'run_' + str(run_id)
RunName(id) == <<"r", "u", "n", "_">> \o Str(id)

\* glob.glob(os.path.join(save_dir_root, 'run_*')): the names of the run
\* directories there are
Glob(ids) == {RunName(id) : id \in ids}

\* sorted(names)[-1]
SortedLast(names) == CHOOSE s \in names : \A t \in names : ~StrLess(s, t)

\* name.split('_')[-1]: what follows the last underscore
SplitLast(name) ==
    LET us == {k \in 1..Len(name) : name[k] = "_"}
        last == CHOOSE k \in us : \A j \in us : j <= k
    IN  IF us = {} THEN name ELSE SubSeq(name, last + 1, Len(name))

RECURSIVE IntOfStr(_)
\* int(s) of a string of decimal digits
IntOfStr(s) == IF s = <<>> THEN 0
              ELSE 10 * IntOfStr(SubSeq(s, 1, Len(s) - 1)) + IntOfChar(s[Len(s)])

\* the run id get_output_directory(args) picks
get_output_directory(ids, resume) ==
    LET runs_ == Glob(ids)
    IN  IF resume
        THEN IF runs_ # {} THEN IntOfStr(SplitLast(SortedLast(runs_))) ELSE 0
        ELSE IF runs_ # {} THEN IntOfStr(SplitLast(SortedLast(runs_))) + 1 ELSE 0

\* a call of get_output_directory, the directory the call before it
\* returned having been created
GetOutputDirectory ==
    \E resume \in BOOLEAN :
        /\ oreq.op # "get_output_directory"
        /\ \A id \in runs : id < MaxRunId
        /\ oreq' = [op |-> "get_output_directory", resume |-> resume]
        /\ oret' = get_output_directory(runs, resume)
        /\ UNCHANGED runs
        /\ UNCHANGED <<req, dec, training, fwd, unpoolVars, netVars, scriptVars>>

\* the caller creates the directory returned, if it is not there yet
MakeDirs ==
    /\ oreq.op = "get_output_directory"
    /\ runs' = runs \cup {oret}
    /\ oreq' = [oreq EXCEPT !.op = "makedirs"]
    /\ UNCHANGED oret
    /\ UNCHANGED <<req, dec, training, fwd, unpoolVars, netVars, scriptVars>>

\* a run directory is deleted from the output root, between two runs
RemoveRun ==
    \E id \in runs :
        /\ oreq.op # "get_output_directory"
        /\ runs' = runs \ {id}
        /\ oreq' = [oreq EXCEPT !.op = "rmtree"]
        /\ UNCHANGED oret
        /\ UNCHANGED <<req, dec, training, fwd, unpoolVars, netVars, scriptVars>>

NextDirs == GetOutputDirectory \/ MakeDirs \/ RemoveRun

SpecDirs == Init /\ [][NextDirs]_vars

\* the numerically largest of a non-empty set of run ids
LargestId(ids) == CHOOSE id \in ids : \A other \in ids : other <= id

\* C12: a call of get_output_directory without resume returns the run whose
\* id is one more than the numerically largest existing run id, 0 when no
\* run exists, hence never an existing run directory, however many runs
\* there are; a call with resume returns the existing run with the largest
\* id.
C12_FreshRunId ==
    oreq.op = "get_output_directory" =>
        IF oreq.resume
        THEN runs # {} => (oret \in runs /\ oret = LargestId(runs))
        ELSE /\ oret = IF runs = {} THEN 0 ELSE LargestId(runs) + 1
             /\ oret \notin runs

====
